---- MODULE Spec2Model ----
(***************************************************************************)
(* Model of package react, structs.go: the reflection-driven struct-to-map *)
(* converter (SToMap, convertStruct, isStruct, jsObjectIsNil,              *)
(* jsObjectIsNotNil) and the decoder wrapper (UnmarshalStruct).            *)
(*                                                                         *)
(* Go values are records tagged by "kind":                                 *)
(*   nil     the untyped nil interface                                     *)
(*   int     i                      string  s                              *)
(*   struct  fields: a sequence of [name, tag, exported, val]              *)
(*   ptr     isnil, elem (the pointee; its zero value when nil)            *)
(*   slice   isnil, elems           set     isnil, entries (react.Set)     *)
(*   jsobj   isnil, a *js.Object   func    isnil, ret: func() interface{} *)
(*   map     mtype, isnil, m        list    l ([]interface{})              *)
(*   panic   msg (a runtime fault raised instead of a return)              *)
(***************************************************************************)
EXTENDS Integers, Sequences, FiniteSets, TLC

VARIABLES op, s, ret, mp, prior, strct, err

vars == <<op, s, ret, mp, prior, strct, err>>

(***************************************************************************)
(* Bounds of the explored inputs.                                          *)
(***************************************************************************)
MaxFields == 2
MaxElems == 2
MaxDepth == 1

(***************************************************************************)
(* Program constants.                                                      *)
(***************************************************************************)
OmitSuffix == ",omitempty"
SkipTag == "-"
HTMLField == "DangerouslySetInnerHTML"
HTMLKey == "dangerouslySetInnerHTML"
MapT == "map[string]interface{}"
JsMT == "js.M"

(***************************************************************************)
(* strings.HasSuffix, strings.TrimSuffix, strings.TrimSpace.               *)
(***************************************************************************)
HasSuffix(str, suf) ==
    /\ Len(str) >= Len(suf)
    /\ SubSeq(str, Len(str) - Len(suf) + 1, Len(str)) = suf

TrimSuffix(str, suf) ==
    IF HasSuffix(str, suf) THEN SubSeq(str, 1, Len(str) - Len(suf)) ELSE str

RECURSIVE TrimLeft(_)
TrimLeft(str) ==
    IF Len(str) > 0 /\ SubSeq(str, 1, 1) = " "
    THEN TrimLeft(SubSeq(str, 2, Len(str)))
    ELSE str

RECURSIVE TrimRight(_)
TrimRight(str) ==
    IF Len(str) > 0 /\ SubSeq(str, Len(str), Len(str)) = " "
    THEN TrimRight(SubSeq(str, 1, Len(str) - 1))
    ELSE str

TrimSpace(str) == TrimRight(TrimLeft(str))

(***************************************************************************)
(* Constructors of Go values.                                              *)
(***************************************************************************)
Nil == [kind |-> "nil"]
IntV(n) == [kind |-> "int", i |-> n]
StrV(x) == [kind |-> "string", s |-> x]
Field(n, t, e, v) == [name |-> n, tag |-> t, exported |-> e, val |-> v]
StructV(fs) == [kind |-> "struct", fields |-> fs]
PtrTo(v) == [kind |-> "ptr", isnil |-> FALSE, elem |-> v]
SliceV(es) == [kind |-> "slice", isnil |-> FALSE, elems |-> es]
NilSlice == [kind |-> "slice", isnil |-> TRUE, elems |-> <<>>]
SetV(es) == [kind |-> "set", isnil |-> FALSE, entries |-> es]
NilSet == [kind |-> "set", isnil |-> TRUE, entries |-> <<>>]
JsObject(null) == [kind |-> "jsobj", isnil |-> null]
FuncV(r) == [kind |-> "func", isnil |-> FALSE, ret |-> r]
NilFunc == [kind |-> "func", isnil |-> TRUE, ret |-> ""]
MapV(t, f) == [kind |-> "map", mtype |-> t, isnil |-> FALSE, m |-> f]
NilMap == [kind |-> "map", mtype |-> MapT, isnil |-> TRUE, m |-> <<>>]
ListV(x) == [kind |-> "list", l |-> x]
Panic(x) == [kind |-> "panic", msg |-> x]
NoErr == [kind |-> "nil"]
ErrV(x) == [kind |-> "error", msg |-> x]

IsPanic(v) == v.kind = "panic"
IsMap(v) == v.kind = "map" /\ ~v.isnil

\* the struct a live *js.Object points to: gopherjs' js.Object has one
\* unexported field
JsObjectStruct == StructV(<<Field("object", "", FALSE, Nil)>>)

(***************************************************************************)
(* reflect.Zero(reflect.TypeOf(v)).Interface(): the zero value of v's type.*)
(***************************************************************************)
RECURSIVE Zero(_)
Zero(v) ==
    CASE v.kind = "int" -> IntV(0)
      [] v.kind = "string" -> StrV("")
      [] v.kind = "struct" ->
            StructV([i \in 1..Len(v.fields) |->
                        [v.fields[i] EXCEPT !.val = Zero(v.fields[i].val)]])
      [] v.kind = "ptr" -> [kind |-> "ptr", isnil |-> TRUE, elem |-> Zero(v.elem)]
      [] v.kind = "slice" -> NilSlice
      [] v.kind = "set" -> NilSet
      [] v.kind = "jsobj" -> JsObject(TRUE)
      [] v.kind = "func" -> NilFunc
      [] v.kind = "map" -> [v EXCEPT !.isnil = TRUE, !.m = <<>>]
      [] OTHER -> Nil

\* reflect.DeepEqual(a, b) on values of one type
DeepEqual(a, b) == a = b

(***************************************************************************)
(* jsObjectIsNotNil, jsObjectIsNil, isStruct.                              *)
(***************************************************************************)
jsObjectIsNotNil(x) == ~(~(x.kind = "jsobj") \/ x.isnil)

jsObjectIsNil(x) == x.kind = "jsobj" /\ x.isnil

isStruct(x) ==
    CASE x.kind \in {"ptr", "jsobj"} ->
            IF x.isnil THEN FALSE
            ELSE IF x.kind = "jsobj" THEN TRUE ELSE x.elem.kind = "struct"
      [] OTHER -> x.kind = "struct"

(***************************************************************************)
(* The pieces of convertStruct's loop body.                                *)
(***************************************************************************)
\* line 91 with the skip marker test dropped
omitFieldNoSkip(fieldTag, fieldVal) ==
    /\ ~jsObjectIsNotNil(fieldVal)
    /\ HasSuffix(fieldTag, OmitSuffix)
    /\ (fieldVal = Nil \/ jsObjectIsNil(fieldVal)
            \/ DeepEqual(fieldVal, Zero(fieldVal)))

\* line 91 with the zero-value test dropped
omitFieldNoZero(fieldTag, fieldVal) == fieldTag = SkipTag

\* line 91: the field is omitted
omitField(fieldTag, fieldVal) ==
    \/ fieldTag = SkipTag
    \/ /\ ~jsObjectIsNotNil(fieldVal)
       /\ HasSuffix(fieldTag, OmitSuffix)
       /\ (fieldVal = Nil \/ jsObjectIsNil(fieldVal)
               \/ DeepEqual(fieldVal, Zero(fieldVal)))

\* the key with the test of the empty tag dropped
outKeyTagOnly(fieldName, fieldTag) == TrimSuffix(fieldTag, OmitSuffix)

\* lines 131-135, 139-155: the key a slice, scalar, handle or nested record
\* is stored under
outKey(fieldName, fieldTag) ==
    IF fieldTag = "" THEN fieldName ELSE TrimSuffix(fieldTag, OmitSuffix)

\* out[k] = v
Put(out, k, v) ==
    [out EXCEPT !.m = [x \in DOMAIN out.m \cup {k} |->
                          IF x = k THEN v ELSE out.m[x]]]

\* Set.Convert(base): one pair per member of the Set, keyed base-member
SetConvert(set, base) ==
    LET keys == {base \o "-" \o a : a \in DOMAIN set.entries}
    IN  [k \in keys |->
            set.entries[CHOOSE a \in DOMAIN set.entries : base \o "-" \o a = k]]

\* the Set branch without the test of the blank base
convertSetNoBlank(out, fieldTag, set) ==
    LET base == TrimSuffix(fieldTag, OmitSuffix)
    IN  [out EXCEPT !.m = SetConvert(set, base) @@ out.m]

\* lines 98-108: the Set branch
convertSet(out, fieldTag, set) ==
    LET base == TrimSuffix(fieldTag, OmitSuffix)
    IN  IF TrimSpace(base) = "" THEN out
        ELSE [out EXCEPT !.m = SetConvert(set, base) @@ out.m]

\* DangerouslySetInnerHTML(v) and DangerouslySetInnerHTMLFunc(fn), the value
\* under the reserved key
InnerHTML(fieldVal) ==
    IF fieldVal.kind = "func" /\ ~fieldVal.isnil
    THEN MapV(MapT, "__html" :> StrV(fieldVal.ret))
    ELSE MapV(MapT, "__html" :> fieldVal)

\* slc = append(slc, e) with the element put in front
appendFront(slc, e) == <<e>> \o slc

\* line 128: slc = append(slc, e)
appendSlc(slc, e) == Append(slc, e)

RECURSIVE convertStruct(_)
RECURSIVE walkFields(_, _, _)
RECURSIVE convertElems(_, _, _)

\* lines 125-129: the elements of a slice field, each through convertStruct
convertElems(elems, i, slc) ==
    IF i > Len(elems) THEN ListV(slc)
    ELSE LET e == convertStruct(elems[i])
         IN  IF IsPanic(e) THEN e
             ELSE convertElems(elems, i + 1, appendSlc(slc, e))

\* lines 79-155: one iteration of the loop over the fields
fieldStep(out, f) ==
    IF ~f.exported THEN out
    ELSE LET fieldName == f.name
             fieldTag == f.tag
             fieldVal == f.val
         IN  IF omitField(fieldTag, fieldVal) THEN out
             ELSE IF fieldVal.kind = "set" THEN convertSet(out, fieldTag, fieldVal)
             ELSE IF fieldName = HTMLField
                        /\ TrimSuffix(fieldTag, OmitSuffix) = HTMLKey
                  THEN Put(out, HTMLKey, InnerHTML(fieldVal))
             ELSE IF fieldVal.kind = "slice"
                  THEN LET slc == convertElems(fieldVal.elems, 1, <<>>)
                       IN  IF IsPanic(slc) THEN slc
                           ELSE Put(out, outKey(fieldName, fieldTag), slc)
             ELSE IF jsObjectIsNotNil(fieldVal)
                  THEN Put(out, outKey(fieldName, fieldTag), fieldVal)
             ELSE IF isStruct(fieldVal)
                  THEN LET nested == convertStruct(fieldVal)
                       IN  IF IsPanic(nested) THEN nested
                           ELSE Put(out, outKey(fieldName, fieldTag), nested)
             ELSE Put(out, outKey(fieldName, fieldTag), fieldVal)

\* lines 78-158: the loop over the fields, in declaration order
walkFields(fields, i, out) ==
    IF i > Len(fields) THEN out
    ELSE LET next == fieldStep(out, fields[i])
         IN  IF IsPanic(next) THEN next ELSE walkFields(fields, i + 1, next)

\* lines 66-159
convertStruct(sIn) ==
    LET v == IF sIn.kind = "jsobj" /\ ~sIn.isnil THEN JsObjectStruct
             ELSE IF sIn.kind = "ptr" /\ ~sIn.isnil THEN sIn.elem
             ELSE sIn
    IN  IF v.kind = "struct"
        THEN walkFields(v.fields, 1, MapV(MapT, <<>>))
        ELSE Panic("reflect: call on a value that is not a struct")

(***************************************************************************)
(* SToMap.                                                                 *)
(***************************************************************************)
Nillable(x) == x.kind \in {"ptr", "slice", "set", "jsobj", "func", "map"}

\* the default case returning nil whatever the value
defaultCaseNil(x) == NilMap

\* lines 38-43: the default case of the type switch
defaultCase(x) ==
    IF ~Nillable(x) THEN Panic("reflect: call of reflect.Value.IsNil")
    ELSE IF x.isnil THEN NilMap
    ELSE Panic("unrecognized type")

\* lines 18-45
SToMap(x) ==
    IF x = Nil THEN NilMap
    ELSE IF jsObjectIsNil(x) THEN NilMap
    ELSE IF isStruct(x) THEN convertStruct(x)
    ELSE IF x.kind = "map" /\ x.mtype = JsMT THEN [x EXCEPT !.mtype = MapT]
    ELSE IF x.kind = "map" /\ x.mtype = MapT THEN x
    ELSE defaultCase(x)

(***************************************************************************)
(* The decoder behind UnmarshalStruct (package forks/mapstructure).        *)
(***************************************************************************)
RECURSIVE BeforeComma(_, _)
\* strings.SplitN(tag, ",", 2)[0]
BeforeComma(str, i) ==
    IF i > Len(str) THEN str
    ELSE IF SubSeq(str, i, i) = "," THEN SubSeq(str, 1, i - 1)
    ELSE BeforeComma(str, i + 1)

\* the map key a destination field is linked to: the name part of its tag,
\* the field's declared name when that part is blank
DecodeKey(f) ==
    LET n == BeforeComma(f.tag, 1) IN IF n = "" THEN f.name ELSE n

RECURSIVE DecodeInto(_, _, _)
RECURSIVE DecodeFields(_, _, _, _, _, _)

\* decode the map m into the fields of a record, field by field
DecodeFields(zf, m, fields, i, acc, ok) ==
    IF i > Len(fields) THEN [val |-> StructV(acc), ok |-> ok]
    ELSE LET f == fields[i]
             key == DecodeKey(f)
             r == IF key \in DOMAIN m THEN DecodeInto(zf, m[key], f.val)
                  ELSE [val |-> IF zf THEN Zero(f.val) ELSE f.val, ok |-> TRUE]
         IN  DecodeFields(zf, m, fields, i + 1,
                          Append(acc, [f EXCEPT !.val = r.val]), ok /\ r.ok)

\* decode one value into a target of a declared type
DecodeInto(zf, input, target) ==
    IF input = Nil \/ (input.kind \in {"ptr", "map"} /\ input.isnil)
    THEN [val |-> IF zf THEN Zero(target) ELSE target, ok |-> TRUE]
    ELSE CASE target.kind = "struct" ->
                 IF input.kind = "map"
                 THEN DecodeFields(zf, input.m, target.fields, 1, <<>>, TRUE)
                 ELSE [val |-> IF zf THEN Zero(target) ELSE target, ok |-> FALSE]
           [] target.kind = "ptr" ->
                 LET r == DecodeInto(zf, input, target.elem)
                 IN  IF r.ok THEN [val |-> PtrTo(r.val), ok |-> TRUE]
                     ELSE [val |-> IF zf THEN Zero(target) ELSE target,
                           ok |-> FALSE]
           [] target.kind = "nil" -> [val |-> input, ok |-> TRUE]
           [] OTHER ->
                 IF input.kind = target.kind THEN [val |-> input, ok |-> TRUE]
                 ELSE [val |-> IF zf THEN Zero(target) ELSE target, ok |-> FALSE]

\* mapstructure.NewDecoder(config) followed by decoder.Decode(input)
Decode(config, input) ==
    IF config.Result.kind # "ptr" \/ config.Result.isnil
    THEN [strct |-> config.Result, err |-> Panic("result must be a pointer")]
    ELSE LET r == DecodeInto(config.ZeroFields, input, config.Result.elem)
         IN  [strct |-> PtrTo(r.val),
              err |-> IF r.ok THEN NoErr ELSE ErrV("decode error")]

\* the wrapper configured for a sparse merge
UnmarshalStructMerge(m, dest) ==
    Decode([ZeroFields |-> FALSE, TagName |-> "react", Result |-> dest], m)

\* lines 179-191
UnmarshalStruct(m, dest) ==
    Decode([ZeroFields |-> TRUE, TagName |-> "react", Result |-> dest], m)

(***************************************************************************)
(* The inputs explored.                                                    *)
(***************************************************************************)
Tags == {"", SkipTag, "className", "count" \o OmitSuffix, OmitSuffix, " "}

UpperNames == <<"Name", "Count", "Extra", "More", "Last">>
LowerNames == <<"name", "count", "extra", "more", "last">>

FieldSpec(t, e, v) == [tag |-> t, exported |-> e, val |-> v, html |-> FALSE]

\* the field declared at position i of a record
MkField(spec, i) ==
    Field(IF spec.html THEN HTMLField
          ELSE IF spec.exported THEN UpperNames[i] ELSE LowerNames[i],
          spec.tag, spec.exported, spec.val)

\* sequences of 1..n elements of S
SeqsUpTo(S, n) == UNION {[1..k -> S] : k \in 1..n}

InnerSpecs ==
    {FieldSpec("", TRUE, IntV(0)), FieldSpec("", TRUE, IntV(5)),
     FieldSpec("count" \o OmitSuffix, TRUE, IntV(0)),
     FieldSpec("className", TRUE, StrV("box")),
     FieldSpec("", FALSE, IntV(5)),
     FieldSpec("", TRUE, SliceV(<<StrV("a")>>))}

RECURSIVE InnerRecs(_)
\* the records nested at most d levels deep inside another record
InnerRecs(d) ==
    IF d <= 1 THEN {<<MkField(f, 1)>> : f \in InnerSpecs}
    ELSE InnerRecs(d - 1)
            \cup {<<Field("Name", "", TRUE, StructV(r))>> : r \in InnerRecs(d - 1)}

Five == StructV(<<Field("Name", "", TRUE, IntV(5))>>)
Box == StructV(<<Field("Name", "className", TRUE, StrV("box"))>>)

SliceVals ==
    {NilSlice, SliceV(<<>>)}
        \cup {SliceV(e) : e \in SeqsUpTo({Five, Box}, MaxElems)}
        \cup {SliceV(e) : e \in SeqsUpTo({PtrTo(Five), Zero(PtrTo(Five))}, MaxElems)}
        \cup {SliceV(e) : e \in SeqsUpTo({StrV("a")}, MaxElems)}

RichVals ==
    {Nil, IntV(0), IntV(5), StrV("box"), JsObject(TRUE), JsObject(FALSE),
     NilSet, SetV(<<>>), SetV("a" :> IntV(1)), FuncV("<b>x</b>")}
        \cup {StructV(r) : r \in InnerRecs(MaxDepth)}
        \cup {PtrTo(Five), Zero(PtrTo(Five)), PtrTo(Box)}
        \cup SliceVals

RichSpecs ==
    {FieldSpec(t, TRUE, v) : t \in Tags, v \in RichVals}
        \cup {[tag |-> t, exported |-> TRUE, val |-> v, html |-> TRUE] :
                t \in {HTMLKey, HTMLKey \o OmitSuffix},
                v \in {StrV(""), StrV("<b>x</b>"), FuncV("<b>x</b>")}}

SimpleSpecs ==
    {FieldSpec("", TRUE, IntV(5)), FieldSpec("className", TRUE, StrV("box")),
     FieldSpec("className-a", TRUE, IntV(5)), FieldSpec("", FALSE, IntV(5))}

\* the records of n fields: one field of any kind among simple ones
RecordsOf(n) ==
    {[i \in 1..n |-> MkField(IF i = p THEN f ELSE g[i], i)] :
        p \in 1..n, f \in RichSpecs \cup SimpleSpecs, g \in [1..n -> SimpleSpecs]}

Records == UNION {RecordsOf(n) : n \in 1..MaxFields} \cup {<<>>}

OtherInputs ==
    {Nil, JsObject(TRUE), JsObject(FALSE), Zero(PtrTo(Five)),
     MapV(JsMT, "className" :> StrV("box")), MapV(MapT, "count" :> IntV(5)),
     MapV(MapT, <<>>), MapV("map[string]string", "a" :> StrV("b")),
     [kind |-> "map", mtype |-> "map[string]string", isnil |-> TRUE, m |-> <<>>],
     IntV(5), StrV("box"), NilSlice, SliceV(<<Five>>), NilSet,
     SetV("a" :> IntV(1)), NilFunc, FuncV("x")}

Inputs ==
    {StructV(r) : r \in Records}
        \cup {PtrTo(StructV(r)) : r \in RecordsOf(1)}
        \cup OtherInputs

\* the record an input holds, directly or behind a pointer
IsRecord(x) == x.kind = "struct" \/ (x.kind = "ptr" /\ ~x.isnil /\ x.elem.kind = "struct")
RecordOf(x) == IF x.kind = "ptr" THEN x.elem ELSE x

RECURSIVE Stale(_)
\* a populated value of v's type, left by an earlier use of the destination
Stale(v) ==
    CASE v.kind = "int" -> IntV(7)
      [] v.kind = "string" -> StrV("old")
      [] v.kind = "struct" ->
            StructV([i \in 1..Len(v.fields) |->
                        [v.fields[i] EXCEPT !.val = Stale(v.fields[i].val)]])
      [] v.kind = "ptr" -> PtrTo(Stale(v.elem))
      [] v.kind = "slice" -> SliceV(<<StrV("old")>>)
      [] v.kind = "set" -> SetV("old" :> IntV(7))
      [] v.kind = "jsobj" -> JsObject(FALSE)
      [] v.kind = "func" -> FuncV("old")
      [] OTHER -> v

\* the destinations a record of x's type is decoded into
Dests(x) ==
    {PtrTo(Zero(RecordOf(x))), PtrTo(Stale(RecordOf(x))), Zero(RecordOf(x))}

SampleMaps ==
    {MapV(MapT, "className" :> StrV("box")),
     MapV(MapT, "Name" :> IntV(5) @@ "count" :> IntV(5) @@ "zzz" :> IntV(1))}

(***************************************************************************)
(* The calls.                                                              *)
(***************************************************************************)
Init ==
    /\ op = "init"
    /\ s \in Inputs
    /\ ret = Nil
    /\ mp = NilMap
    /\ prior = Nil
    /\ strct = Nil
    /\ err = NoErr

\* ret = SToMap(s)
CallSToMap ==
    /\ op = "init"
    /\ op' = "SToMap"
    /\ ret' = SToMap(s)
    /\ UNCHANGED <<s, mp, prior, strct, err>>

\* err = UnmarshalStruct(SToMap(s), dest)
CallUnmarshalStruct ==
    /\ op = "SToMap"
    /\ IsRecord(s)
    /\ ret.kind = "map"
    /\ \E dest \in Dests(s) :
          LET r == UnmarshalStruct(ret, dest)
          IN  /\ op' = "RoundTrip"
              /\ mp' = ret
              /\ prior' = dest
              /\ strct' = r.strct
              /\ err' = r.err
    /\ UNCHANGED <<s, ret>>

\* err = UnmarshalStruct(m, dest) for a map built by the host
CallUnmarshalProps ==
    /\ op = "init"
    /\ IsRecord(s)
    /\ \E dest \in Dests(s), m \in SampleMaps :
          LET r == UnmarshalStruct(m, dest)
          IN  /\ op' = "UnmarshalStruct"
              /\ mp' = m
              /\ prior' = dest
              /\ strct' = r.strct
              /\ err' = r.err
    /\ UNCHANGED <<s, ret>>

\* the same map decoded once more into the same destination
CallUnmarshalAgain ==
    /\ op \in {"RoundTrip", "UnmarshalStruct"}
    /\ err = NoErr
    /\ LET r == UnmarshalStruct(mp, strct)
       IN  /\ op' = "Again"
           /\ prior' = strct
           /\ strct' = r.strct
           /\ err' = r.err
    /\ UNCHANGED <<s, ret, mp>>

Next ==
    \/ CallSToMap
    \/ CallUnmarshalStruct
    \/ CallUnmarshalProps
    \/ CallUnmarshalAgain

Spec == Init /\ [][Next]_vars

(***************************************************************************)
(* Vocabulary of the properties.                                           *)
(***************************************************************************)
Encoded == op = "SToMap" /\ IsRecord(s)
Fields == RecordOf(s).fields
RemoveAt(fs, i) == SubSeq(fs, 1, i - 1) \o SubSeq(fs, i + 1, Len(fs))
Without(i) == StructV(RemoveAt(Fields, i))
After(i) == StructV(SubSeq(Fields, i + 1, Len(Fields)))
Base(f) == TrimSuffix(f.tag, OmitSuffix)
IsZeroValue(v) == v = Zero(v)
OmitTagged(f) == f.exported /\ HasSuffix(f.tag, OmitSuffix)
Dropped(f) == f.tag = SkipTag \/ (HasSuffix(f.tag, OmitSuffix) /\ IsZeroValue(f.val))
KeysOf(v) == IF IsMap(v) THEN DOMAIN v.m ELSE {}
IsRecordValue(v) == v.kind = "struct" \/ (v.kind = "ptr" /\ ~v.isnil)

RECURSIVE Plain(_)
\* a record without tags whose fields are scalars, records or pointers to them
Plain(v) ==
    \A i \in 1..Len(v.fields) :
        LET f == v.fields[i]
        IN  /\ f.tag = ""
            /\ f.val.kind \in {"int", "string", "struct", "ptr"}
            /\ f.val.kind = "struct" => Plain(f.val)
            /\ f.val.kind = "ptr" => Plain(f.val.elem)

RECURSIVE AllExported(_)
AllExported(v) ==
    \A i \in 1..Len(v.fields) :
        LET f == v.fields[i]
        IN  /\ f.exported
            /\ f.val.kind = "struct" => AllExported(f.val)
            /\ f.val.kind = "ptr" => AllExported(f.val.elem)

RoundTripped == op = "RoundTrip" /\ prior.kind = "ptr" /\ Plain(RecordOf(s))

\* C1 as stated: decoding SToMap(R) into a fresh or populated destination
\* succeeds and leaves the destination equal to R, for every record R without
\* tags and without Set, raw-HTML, sequence or host-handle fields.
C1_RoundTripAnyPlainRecord ==
    RoundTripped => (err = NoErr /\ strct = PtrTo(RecordOf(s)))

\* C1 amended: the round trip is the identity for every such record whose
\* fields, at every nesting level, are exported.
C1_RoundTripExported ==
    (RoundTripped /\ AllExported(RecordOf(s)))
        => (err = NoErr /\ strct = PtrTo(RecordOf(s)))

C1_Witness ==
    /\ RoundTripped
    /\ AllExported(RecordOf(s))
    /\ prior = PtrTo(Stale(RecordOf(s)))
    /\ Len(Fields) = 2
    /\ Fields[1].val = IntV(5)
    /\ Fields[2].val = Five
    /\ strct = PtrTo(RecordOf(s))

\* C2 as stated: a field tagged with the ,omitempty suffix contributes no
\* entry to the output map when its value is the zero value of its type (the
\* decision precedes any conversion of the field), and contributes an entry
\* when its value is non-zero.
C2_OmitEmptyAnyKind ==
    Encoded =>
        \A i \in 1..Len(Fields) :
            LET f == Fields[i]
            IN  OmitTagged(f) =>
                    /\ IsZeroValue(f.val) => ret = convertStruct(Without(i))
                    /\ (~IsZeroValue(f.val) /\ IsMap(ret)) => Base(f) \in DOMAIN ret.m

\* C2 amended: as stated, except that a non-zero Set field contributes the
\* pairs of its expansion, which may be none, instead of an entry of its own.
C2_OmitEmpty ==
    Encoded =>
        \A i \in 1..Len(Fields) :
            LET f == Fields[i]
            IN  OmitTagged(f) =>
                    /\ IsZeroValue(f.val) => ret = convertStruct(Without(i))
                    /\ (~IsZeroValue(f.val) /\ IsMap(ret) /\ f.val.kind # "set")
                            => Base(f) \in DOMAIN ret.m
                    /\ (~IsZeroValue(f.val) /\ IsMap(ret) /\ f.val.kind = "set")
                            => KeysOf(ret) = KeysOf(convertStruct(Without(i)))
                                    \cup (IF TrimSpace(Base(f)) = "" THEN {}
                                          ELSE DOMAIN SetConvert(f.val, Base(f)))

C2_Witness ==
    /\ Encoded
    /\ Len(Fields) = 2
    /\ Fields[1].tag = "className"
    /\ Fields[2].tag = "count" \o OmitSuffix
    /\ Fields[2].val = IntV(0)
    /\ ret = MapV(MapT, "className" :> StrV("box"))

\* the key the tag grammar <name>[,omitempty] gives a field
GrammarKey(f) == IF Base(f) = "" THEN f.name ELSE Base(f)

ExampleRecord ==
    StructV(<<Field("Name", "className", TRUE, StrV("box")),
              Field("Count", "count" \o OmitSuffix, TRUE, IntV(5))>>)

\* C3: the output key of a field is its tag with the ,omitempty suffix
\* stripped, and the field's declared name whenever that name part is blank:
\* when the tag is absent and when the tag is exactly ,omitempty.
C3_KeyFollowsTagGrammar ==
    (Encoded /\ IsMap(ret)) =>
        /\ \A i \in 1..Len(Fields) :
              LET f == Fields[i]
              IN  (/\ f.exported
                   /\ ~Dropped(f)
                   /\ f.val.kind \in {"int", "string"}
                   /\ ~(f.name = HTMLField /\ Base(f) = HTMLKey)
                   /\ GrammarKey(f) \notin KeysOf(convertStruct(Without(i))))
                      => /\ GrammarKey(f) \in DOMAIN ret.m
                         /\ ret.m[GrammarKey(f)] = f.val
        /\ s = ExampleRecord
              => ret.m = ("className" :> StrV("box") @@ "count" :> IntV(5))

\* C4: a field whose tag is exactly - contributes no entry to the output
\* map, whatever its value and kind: the result is that of the record
\* without the field.
C4_SkipTagNeverContributes ==
    Encoded =>
        \A i \in 1..Len(Fields) :
            Fields[i].tag = SkipTag => ret = convertStruct(Without(i))

C4_Witness ==
    /\ Encoded
    /\ Len(Fields) = 2
    /\ Fields[1].tag = SkipTag
    /\ Fields[1].exported
    /\ Fields[1].val = SliceV(<<StrV("a")>>)
    /\ ret = MapV(MapT, "className" :> StrV("box"))

\* C5: SToMap returns nil for a nil input and for a null host handle, and a
\* non-nil map, possibly empty, for every record input.
C5_NilOrMap ==
    op = "SToMap" =>
        /\ (s = Nil \/ s = JsObject(TRUE)) => ret = NilMap
        /\ IsRecord(s) => IsMap(ret)

\* the inputs that reach the default case of the dispatch
Fallback(x) ==
    /\ x # Nil
    /\ ~(x.kind = "jsobj" /\ x.isnil)
    /\ ~isStruct(x)
    /\ ~(x.kind = "map" /\ x.mtype \in {MapT, JsMT})

IsNilValue(x) == Nillable(x) /\ x.isnil

\* C6 as stated: in the fallback of the dispatch a non-nil value is returned
\* unchanged and any other value fails with a runtime fault.
C6_FallbackReturnsValue ==
    (op = "SToMap" /\ Fallback(s)) =>
        IF IsNilValue(s) THEN IsPanic(ret) ELSE ret = s

\* C6 amended: in the fallback of the dispatch a nil value (a nil pointer,
\* slice, map or function) gives a nil map and every non-nil value fails
\* with a runtime fault, never a returned error value.
C6_FallbackNilOrPanic ==
    (op = "SToMap" /\ Fallback(s)) =>
        IF IsNilValue(s) THEN ret = NilMap ELSE IsPanic(ret)

C6_Witness ==
    /\ op = "SToMap"
    /\ Fallback(s)
    /\ s = SliceV(<<Five>>)
    /\ ret = Panic("unrecognized type")

Decoded == op \in {"RoundTrip", "UnmarshalStruct", "Again"} /\ err = NoErr

\* a value of M that stands for no data: nil or a nil pointer
NilData(v) == v = Nil \/ (v.kind \in {"ptr", "map"} /\ v.isnil)

\* the map m without the keys that match no field of the record v
Matching(m, v) ==
    [m EXCEPT !.m = [k \in DOMAIN m.m \cap {DecodeKey(v.fields[i]) : i \in 1..Len(v.fields)}
                        |-> m.m[k]]]

\* C7: after a successful decode of M every destination field whose key is
\* absent from M holds its zero value and every field whose key is in M
\* holds M's value; the result depends on M alone, not on what the
\* destination held, decoding M again changes nothing, and the keys of M
\* that match no field are ignored.
C7_DecodeIsDestructive ==
    Decoded =>
        /\ \A i \in 1..Len(strct.elem.fields) :
              LET f == strct.elem.fields[i]
                  k == DecodeKey(f)
              IN  /\ k \notin DOMAIN mp.m => f.val = Zero(f.val)
                  /\ (k \in DOMAIN mp.m /\ f.val.kind \in {"int", "string"})
                        => f.val = IF NilData(mp.m[k]) THEN Zero(f.val) ELSE mp.m[k]
        /\ strct = UnmarshalStruct(mp, PtrTo(Zero(prior.elem))).strct
        /\ strct = UnmarshalStruct(Matching(mp, prior.elem), prior).strct
        /\ op = "Again" => strct = prior

C7_Witness ==
    /\ op = "Again"
    /\ err = NoErr
    /\ mp = MapV(MapT, "className" :> StrV("box"))
    /\ Len(strct.elem.fields) = 2
    /\ strct.elem.fields[1].val = StrV("box")
    /\ strct.elem.fields[2].tag = "count" \o OmitSuffix
    /\ strct.elem.fields[2].val = IntV(0)

\* C8: a sequence field of record elements that is not omitted is stored
\* under its output key as the sequence, in the same order and of the same
\* length, of the conversions of its elements; an empty sequence that is not
\* omitted is stored as an empty sequence.
C8_SliceOfRecords ==
    (Encoded /\ IsMap(ret)) =>
        \A i \in 1..Len(Fields) :
            LET f == Fields[i]
                k == IF f.tag = "" THEN f.name ELSE Base(f)
            IN  (/\ f.exported
                 /\ f.val.kind = "slice"
                 /\ ~Dropped(f)
                 /\ \A j \in 1..Len(f.val.elems) : IsRecordValue(f.val.elems[j])
                 /\ k \notin KeysOf(convertStruct(After(i))))
                    => /\ k \in DOMAIN ret.m
                       /\ ret.m[k] = ListV([j \in 1..Len(f.val.elems) |->
                                               convertStruct(f.val.elems[j])])

C8_Witness ==
    /\ Encoded
    /\ Len(Fields) = 1
    /\ Fields[1].tag = "count" \o OmitSuffix
    /\ Fields[1].val = SliceV(<<Five, Box>>)
    /\ ret = MapV(MapT, "count" :> ListV(<<MapV(MapT, "Name" :> IntV(5)),
                                            MapV(MapT, "className" :> StrV("box"))>>))

\* C9 as stated: a Set field that is not omitted contributes nothing when
\* the base of its key is blank; otherwise it contributes one or more
\* entries, the pairs of its expansion, each replacing an earlier entry under
\* the same key.
C9_SetOneOrMore ==
    (Encoded /\ IsMap(ret)) =>
        \A i \in 1..Len(Fields) :
            LET f == Fields[i]
                all == SetConvert(f.val, Base(f))
            IN  (f.exported /\ f.val.kind = "set" /\ ~Dropped(f)) =>
                    IF TrimSpace(Base(f)) = "" THEN ret = convertStruct(Without(i))
                    ELSE /\ DOMAIN all # {}
                         /\ DOMAIN ret.m = KeysOf(convertStruct(Without(i))) \cup DOMAIN all
                         /\ \A k \in DOMAIN all \ KeysOf(convertStruct(After(i))) :
                               ret.m[k] = all[k]

\* C9 amended: with a base that is not blank the Set contributes zero or
\* more entries, the pairs of its expansion (none for an empty Set).
C9_SetExpansion ==
    (Encoded /\ IsMap(ret)) =>
        \A i \in 1..Len(Fields) :
            LET f == Fields[i]
                all == SetConvert(f.val, Base(f))
            IN  (f.exported /\ f.val.kind = "set" /\ ~Dropped(f)) =>
                    IF TrimSpace(Base(f)) = "" THEN ret = convertStruct(Without(i))
                    ELSE /\ DOMAIN ret.m = KeysOf(convertStruct(Without(i))) \cup DOMAIN all
                         /\ \A k \in DOMAIN all \ KeysOf(convertStruct(After(i))) :
                               ret.m[k] = all[k]

C9_Witness ==
    /\ Encoded
    /\ Len(Fields) = 2
    /\ Fields[1].tag = "className-a"
    /\ Fields[1].val = IntV(5)
    /\ Fields[2].tag = "className"
    /\ Fields[2].val = SetV("a" :> IntV(1))
    /\ ret = MapV(MapT, "className-a" :> IntV(1))

\* C10: for every record input SToMap terminates and returns a map without
\* raising a fault, whatever the values of the fields.
C10_EncodeNeverFaults ==
    Encoded => ~IsPanic(ret)

====
